---- MODULE Spec2Model ----
(***************************************************************************)
(* Model of src/scheduler.js: the submit handler's validation, the slot    *)
(* grid built by scheduler(), calculateConflicts(), the sort, and the      *)
(* greedy allocation of assignCourses()/assign().                          *)
(*                                                                         *)
(* Slot keys are the strings `${day}.${period}`; they are modelled as      *)
(* sequences of one-character strings so that formatting, split('.') and   *)
(* parseInt are computed rather than assumed.                              *)
(***************************************************************************)
EXTENDS Integers, Sequences, FiniteSets, TLC

\* ------------------------------------------------------------------ bounds
\* The source builds floor(1000 / days) periods (line 28); the model scales
\* the slot budget down so that a full grid can be exhausted.
SlotBudget == 4
\* Largest valid day count submitted (the handler accepts 1..7).
MaxDays == 2
\* Largest room capacity submitted.
MaxRooms == 1
\* Longest unavailability list of a teacher.
MaxUnavail == 2
\* Cap of the period counter of a grid loop that never exits (days = 0).
MaxSpin == 3

\* ------------------------------------------------------- program constants
\* line 134: days > 7 is rejected
MaxWeekDays == 7
\* line 129: parseInt(...) || null; null (and 0, NaN) is represented by 0,
\* which `rooms && ...` (line 69) treats exactly like null.
NoRooms == 0

\* ------------------------------------------------------------ slot strings
Digits == <<"0", "1", "2", "3", "4", "5", "6", "7", "8", "9">>

IsDigit(ch) == \E i \in 1..10 : Digits[i] = ch

DigitVal(ch) == (CHOOSE i \in 1..10 : Digits[i] = ch) - 1

RECURSIVE ToStr(_)
\* template-literal formatting of a non-negative integer
ToStr(n) == IF n < 10 THEN <<Digits[n + 1]>>
            ELSE ToStr(n \div 10) \o <<Digits[(n % 10) + 1]>>

\* `${day}.${period}`
mkSlot(day, period) == ToStr(day) \o <<".">> \o ToStr(period)

RECURSIVE split(_, _)
\* String.prototype.split(sep) for a one-character separator
split(s, sep) ==
    IF \A i \in 1..Len(s) : s[i] # sep THEN <<s>>
    ELSE LET k == CHOOSE i \in 1..Len(s) :
                      s[i] = sep /\ \A j \in 1..(i - 1) : s[j] # sep
         IN  <<SubSeq(s, 1, k - 1)>> \o split(SubSeq(s, k + 1, Len(s)), sep)

RECURSIVE parseDigits(_, _)
parseDigits(s, acc) ==
    IF s = <<>> \/ ~IsDigit(Head(s)) THEN acc
    ELSE parseDigits(Tail(s), 10 * acc + DigitVal(Head(s)))

\* parseInt on a string that starts with a digit (value of the digit prefix)
parseInt(s) == parseDigits(s, 0)

\* parseInt(slot.split('.')[1]) (JS index 1 is the second element)
PeriodOfDayFirst(slot) == parseInt(split(slot, ".")[1])

slotPeriod(slot) == parseInt(split(slot, ".")[2])

\* ------------------------------------------------------------------ inputs
k11 == mkSlot(1, 1)
k21 == mkSlot(2, 1)
k12 == mkSlot(1, 2)

\* Course objects as processCourses builds them (conflicts = 0, line 19).
Course(id, teacher, section, lectures, prefs) ==
    [id |-> id, teacher |-> teacher, section |-> section,
     lectures |-> lectures,
     priority |-> IF prefs # <<>> THEN 1 ELSE 2,
     prefs |-> prefs, conflicts |-> 0]

\* The courses a run can be given: a lone course, a course with a repeated
\* preference, a course whose first preference is off the grid when days = 1,
\* and a course sharing a teacher / a section with the others.
Catalogue ==
    { Course(0, "t3", {"c"}, 2, <<>>),
      Course(1, "t1", {"b"}, 2, <<k11, k11>>),
      Course(2, "t2", {"a", "b"}, 1, <<k21, k12>>),
      Course(3, "t1", {"a"}, 2, <<>>) }

Range(s) == { s[i] : i \in 1..Len(s) }

RECURSIVE SeqsOver(_, _)
\* all sequences of length <= n over S
SeqsOver(S, n) ==
    IF n = 0 THEN { <<>> }
    ELSE LET shorter == SeqsOver(S, n - 1)
         IN  shorter \cup { Append(q, x) : q \in shorter, x \in S }

\* every ordering of every subset of the catalogue
CourseLists ==
    { q \in SeqsOver(Catalogue, Cardinality(Catalogue)) :
        \A i, j \in 1..Len(q) : i # j => q[i] # q[j] }

UnavailTeachers == {"t1", "t2"}
UnavailTokens == {k11, k21}

\* processUnavailability: null when no file is given, else a teacher -> list
\* map; `supplied` distinguishes null from an (even empty) object.
NoUnavail == [supplied |-> FALSE, map |-> <<>>]

UnavailChoices ==
    { NoUnavail, [supplied |-> TRUE, map |-> <<>>] } \cup
    { [supplied |-> TRUE, map |-> [x \in {t} |-> l]] :
        t \in UnavailTeachers,
        l \in SeqsOver(UnavailTokens, MaxUnavail) \ { <<>> } }

DayInputs == (-1 .. MaxDays) \cup { MaxWeekDays + 1 }
RoomInputs == { -1, NoRooms } \cup (1 .. MaxRooms)

\* ------------------------------------------------------------------- state
VARIABLES
    pc,          \* control position of the handler / scheduler
    days, rooms, unavail,   \* the form's values, the arguments of scheduler()
    input,       \* the course list as passed to scheduler()
    courses,     \* the same array, scored and sorted in place
    period,      \* loop counter of the grid construction
    schedule,    \* slot key -> sequence of course ids (occupancy)
    slotOrder,   \* keys of `schedule` in insertion order (for-in order)
    periods,     \* assignCourses' running maximum period
    unassigned,  \* assignCourses' unassigned list (course ids)
    ci,          \* index of the current course in `courses`
    phase,       \* position inside the current course's turn
    si,          \* index into prefs, or into slotOrder
    allotted,    \* sessions placed for the current course
    attempts,    \* history: the assign() calls made so far, in order
    result,      \* the array returned by scheduler()
    shownError   \* content of the error container

vars == <<pc, days, rooms, unavail, input, courses, period, schedule,
          slotOrder, periods, unassigned, ci, phase, si, allotted,
          attempts, result, shownError>>

NoResult == [returned |-> FALSE, schedule |-> <<>>, periods |-> 0,
             unassigned |-> <<>>, error |-> "null"]

Init ==
    /\ pc = "form"
    /\ days = 0 /\ rooms = NoRooms /\ unavail = NoUnavail
    /\ input = <<>> /\ courses = <<>>
    /\ period = 1
    /\ schedule = <<>> /\ slotOrder = <<>>
    /\ periods = 0 /\ unassigned = <<>>
    /\ ci = 1 /\ phase = "begin" /\ si = 1 /\ allotted = 0
    /\ attempts = <<>>
    /\ result = NoResult
    /\ shownError = "none"

\* ---------------------------------------------------------- submit handler
InvalidFormAllowZero(d, r) == d < 0 \/ d > MaxWeekDays \/ (r # NoRooms /\ r < 1)

\* line 134
InvalidForm(d, r) == d < 1 \/ d > MaxWeekDays \/ (r # NoRooms /\ r < 1)

\* lines 128-146: the handler reads the form, validates it, and either shows
\* the configuration error or calls scheduler(courses, days, rooms, unavail)
Submit ==
    /\ pc = "form"
    /\ \E d \in DayInputs, r \in RoomInputs, cs \in CourseLists,
          u \in UnavailChoices :
          IF InvalidForm(d, r)
          THEN /\ pc' = "rejected"
               /\ shownError' = "Invalid value for days or rooms"
               /\ days' = d /\ rooms' = r
               /\ UNCHANGED <<unavail, input, courses>>
          ELSE /\ pc' = "grid"
               /\ days' = d /\ rooms' = r /\ unavail' = u
               /\ input' = cs /\ courses' = cs
               /\ UNCHANGED shownError
    /\ UNCHANGED <<period, schedule, slotOrder, periods, unassigned, ci,
                   phase, si, allotted, attempts, result>>

\* ----------------------------------------------------------- grid (27-32)
\* Math.floor(SlotBudget / d) for d # 0
FloorDiv(n, d) == IF d > 0 THEN n \div d ELSE -((n + (-d) - 1) \div (-d))

\* period <= Math.floor(budget / days); the quotient is Infinity for days = 0
GridLoopCond(p, d) == IF d = 0 THEN TRUE ELSE p <= FloorDiv(SlotBudget, d)

RowDayOuter(p, d) == [i \in 1..(IF d > 0 THEN d ELSE 0) |-> mkSlot(p, i)]

\* the keys the inner loop adds for one period, in order
GridRow(p, d) == [i \in 1..(IF d > 0 THEN d ELSE 0) |-> mkSlot(i, p)]

BuildRow ==
    /\ pc = "grid"
    /\ IF GridLoopCond(period, days)
       THEN LET row == GridRow(period, days)
            IN  /\ slotOrder' = slotOrder \o row
                /\ schedule' = [k \in DOMAIN schedule \cup Range(row) |-> <<>>]
                /\ period' = IF period < MaxSpin + SlotBudget
                             THEN period + 1 ELSE period
                /\ pc' = pc
       ELSE /\ pc' = "score"
            /\ UNCHANGED <<slotOrder, schedule, period>>
    /\ UNCHANGED <<days, rooms, unavail, input, courses, periods, unassigned,
                   ci, phase, si, allotted, attempts, result, shownError>>

\* --------------------------------------------------------- conflict model
conflictSectionsEqual(c1, c2) ==
    c1.teacher = c2.teacher \/ c1.section = c2.section

conflictTeacherOnly(c1, c2) == c1.teacher = c2.teacher

\* lines 109-112
conflict(c1, c2) ==
    \/ c1.teacher = c2.teacher
    \/ \E s \in c1.section : s \in c2.section

RECURSIVE reduceConflicts(_, _, _, _)
\* courses.reduce((sum, other) => other !== course && conflict(...) ?
\*                sum + w : sum, 0), from index i on; `other !== course` is
\* object identity, which the unique ids of a run decide
reduceConflicts(cs, i, c, w) ==
    IF i > Len(cs) THEN 0
    ELSE (IF cs[i].id # c.id /\ conflict(c, cs[i]) THEN w ELSE 0)
         + reduceConflicts(cs, i + 1, c, w)

\* (unavail[course.teacher] || []).length
unavailLen(u, t) == IF t \in DOMAIN u.map THEN Len(u.map[t]) ELSE 0

scoreWeightOne(cs, c, u) ==
    reduceConflicts(cs, 1, c, 1)
    + (IF u.supplied THEN unavailLen(u, c.teacher) ELSE 0)

\* lines 49-62: the value written to course.conflicts
score(cs, c, u) ==
    IF u.supplied
    THEN reduceConflicts(cs, 1, c, 2) + unavailLen(u, c.teacher)
    ELSE reduceConflicts(cs, 1, c, 1)

CalculateConflicts ==
    /\ pc = "score"
    /\ courses' = [i \in 1..Len(courses) |->
                     [courses[i] EXCEPT !.conflicts =
                                          score(courses, courses[i], unavail)]]
    /\ pc' = "sort"
    /\ UNCHANGED <<days, rooms, unavail, input, period, schedule, slotOrder,
                   periods, unassigned, ci, phase, si, allotted, attempts,
                   result, shownError>>

\* ------------------------------------------------------- ordering (line 36)
compareNoIdTieBreak(a, b) ==
    IF a.priority - b.priority # 0 THEN a.priority - b.priority
    ELSE b.conflicts - a.conflicts

compareConflictsAscending(a, b) ==
    IF a.priority - b.priority # 0 THEN a.priority - b.priority
    ELSE IF a.conflicts - b.conflicts # 0 THEN a.conflicts - b.conflicts
    ELSE a.id - b.id

\* a.priority - b.priority || b.conflicts - a.conflicts || a.id - b.id
compare(a, b) ==
    IF a.priority - b.priority # 0 THEN a.priority - b.priority
    ELSE IF b.conflicts - a.conflicts # 0 THEN b.conflicts - a.conflicts
    ELSE a.id - b.id

RECURSIVE insertSorted(_, _)
\* stable insertion of x after every element that does not compare greater
insertSorted(s, x) ==
    IF s = <<>> THEN <<x>>
    ELSE IF compare(Head(s), x) <= 0
         THEN <<Head(s)>> \o insertSorted(Tail(s), x)
         ELSE <<x>> \o s

RECURSIVE sort(_)
\* Array.prototype.sort (stable)
sort(s) == IF s = <<>> THEN <<>>
           ELSE insertSorted(sort(SubSeq(s, 1, Len(s) - 1)), s[Len(s)])

SortCourses ==
    /\ pc = "sort"
    /\ courses' = sort(courses)
    /\ pc' = "alloc"
    /\ ci' = 1 /\ phase' = "begin"
    /\ UNCHANGED <<days, rooms, unavail, input, period, schedule, slotOrder,
                   periods, unassigned, si, allotted, attempts, result,
                   shownError>>

\* ------------------------------------------------- assign (lines 68-77)
course == courses[ci]

ById(id) == CHOOSE c \in Range(courses) : c.id = id

\* unavail && unavail[course.teacher] && unavail[course.teacher].includes(slot)
teacherUnavailable(c, slot) ==
    /\ unavail.supplied
    /\ c.teacher \in DOMAIN unavail.map
    /\ slot \in Range(unavail.map[c.teacher])

roomsFullOffByOne(slot) == rooms # NoRooms /\ Len(schedule[slot]) = rooms + 1

\* rooms && schedule[slot].length === rooms
roomsFull(slot) == rooms # NoRooms /\ Len(schedule[slot]) = rooms

assignOutcomeIgnoreUnavail(c, slot) ==
    IF rooms # NoRooms /\ slot \notin DOMAIN schedule THEN "threw"
    ELSE IF rooms # NoRooms /\ roomsFull(slot) THEN "rejected"
    ELSE IF slot \notin DOMAIN schedule THEN "threw"
    ELSE IF \E i \in 1..Len(schedule[slot]) :
                 conflict(c, ById(schedule[slot][i])) THEN "rejected"
    ELSE "placed"

\* What one call assign(course, slot) does: "threw" when schedule[slot] is
\* undefined at the first place it is dereferenced (line 69 when rooms is
\* set, else line 71), "rejected" for return false, "placed" for return true.
assignOutcome(c, slot) ==
    IF rooms # NoRooms /\ slot \notin DOMAIN schedule THEN "threw"
    ELSE IF rooms # NoRooms /\ roomsFull(slot) THEN "rejected"
    ELSE IF teacherUnavailable(c, slot) THEN "rejected"
    ELSE IF slot \notin DOMAIN schedule THEN "threw"
    ELSE IF \E i \in 1..Len(schedule[slot]) :
                 conflict(c, ById(schedule[slot][i])) THEN "rejected"
    ELSE "placed"

Max(a, b) == IF a >= b THEN a ELSE b

CaughtResultPartial ==
    [returned |-> TRUE, schedule |-> schedule, periods |-> periods,
     unassigned |-> unassigned,
     error |-> "An unexpected error occurred during scheduling"]

\* line 45: the value returned by the catch block
CaughtResult ==
    [returned |-> TRUE, schedule |-> <<>>, periods |-> 0,
     unassigned |-> <<>>,
     error |-> "An unexpected error occurred during scheduling"]

breakReachedStrict(n, c) == n > c.lectures

\* if (allotted >= course.lectures) break;
breakReached(n, c) == n >= c.lectures

\* One call of assign(course, slot) from the loop of phase ph, with what the
\* loop does on its return: a throw leaves through the catch of scheduler(),
\* false moves to the next slot, true counts the session and takes the break
\* when the course has its sessions.
Attempt(slot, ph) ==
    LET out == assignOutcome(course, slot)
    IN  /\ attempts' = Append(attempts,
                         [course |-> course.id, slot |-> slot,
                          phase |-> ph, outcome |-> out])
        /\ IF out = "threw"
           THEN /\ pc' = "returned"
                /\ result' = CaughtResult
                /\ UNCHANGED <<schedule, periods, allotted, si, phase>>
           ELSE IF out = "rejected"
           THEN /\ si' = si + 1
                /\ UNCHANGED <<pc, result, schedule, periods, allotted, phase>>
           ELSE /\ schedule' = [schedule EXCEPT ![slot] = Append(@, course.id)]
                /\ periods' = Max(periods, slotPeriod(slot))
                /\ allotted' = allotted + 1
                /\ IF breakReached(allotted + 1, course)
                   THEN /\ phase' = IF ph = "prefs" THEN "afterPrefs"
                                    ELSE "afterFallback"
                        /\ si' = si
                   ELSE /\ phase' = phase
                        /\ si' = si + 1
                /\ UNCHANGED <<pc, result>>

\* ------------------------------------------ assignCourses (lines 79-106)
\* line 80: let allotted = 0, for the next course of the for-of loop
BeginCourse ==
    /\ pc = "alloc" /\ phase = "begin" /\ ci <= Len(courses)
    /\ allotted' = 0
    /\ phase' = IF Len(course.prefs) > 0 THEN "prefs" ELSE "afterPrefs"
    /\ si' = 1
    /\ UNCHANGED <<pc, days, rooms, unavail, input, courses, period, schedule,
                   slotOrder, periods, unassigned, ci, attempts, result,
                   shownError>>

\* lines 83-88: one iteration of the loop over course.prefs
TryPref ==
    /\ pc = "alloc" /\ phase = "prefs" /\ si <= Len(course.prefs)
    /\ Attempt(course.prefs[si], "prefs")
    /\ UNCHANGED <<days, rooms, unavail, input, courses, period, slotOrder,
                   unassigned, ci, shownError>>

\* the loop over course.prefs ran to its end
EndPrefs ==
    /\ pc = "alloc" /\ phase = "prefs" /\ si > Len(course.prefs)
    /\ phase' = "afterPrefs"
    /\ UNCHANGED <<pc, days, rooms, unavail, input, courses, period, schedule,
                   slotOrder, periods, unassigned, ci, si, allotted, attempts,
                   result, shownError>>

\* line 91: if (allotted < course.lectures)
EnterFallback ==
    /\ pc = "alloc" /\ phase = "afterPrefs"
    /\ phase' = IF allotted < course.lectures THEN "fallback"
                ELSE "afterFallback"
    /\ si' = 1
    /\ UNCHANGED <<pc, days, rooms, unavail, input, courses, period, schedule,
                   slotOrder, periods, unassigned, ci, allotted, attempts,
                   result, shownError>>

skipsSlotNever(c, slot) == FALSE

\* line 93: course.prefs.includes(slot)
skipsSlot(c, slot) == slot \in Range(c.prefs)

\* lines 92-98: one iteration of for (let slot in schedule)
TryFallback ==
    /\ pc = "alloc" /\ phase = "fallback" /\ si <= Len(slotOrder)
    /\ IF skipsSlot(course, slotOrder[si])
       THEN /\ si' = si + 1
            /\ UNCHANGED <<pc, schedule, periods, allotted, phase, attempts,
                           result>>
       ELSE Attempt(slotOrder[si], "fallback")
    /\ UNCHANGED <<days, rooms, unavail, input, courses, period, slotOrder,
                   unassigned, ci, shownError>>

\* the for-in loop ran to its end
EndFallback ==
    /\ pc = "alloc" /\ phase = "fallback" /\ si > Len(slotOrder)
    /\ phase' = "afterFallback"
    /\ UNCHANGED <<pc, days, rooms, unavail, input, courses, period, schedule,
                   slotOrder, periods, unassigned, ci, si, allotted, attempts,
                   result, shownError>>

isUnassignedAlways(n, c) == TRUE

\* line 102: if (allotted < course.lectures)
isUnassigned(n, c) == n < c.lectures

\* lines 102-105, and the step of the for-of loop to the next course
CheckCourse ==
    /\ pc = "alloc" /\ phase = "afterFallback"
    /\ unassigned' = IF isUnassigned(allotted, course)
                     THEN Append(unassigned, course.id) ELSE unassigned
    /\ ci' = ci + 1
    /\ phase' = "begin"
    /\ UNCHANGED <<pc, days, rooms, unavail, input, courses, period, schedule,
                   slotOrder, periods, si, allotted, attempts, result,
                   shownError>>

\* lines 41-43
errorOf(un) == IF Len(un) > 0 THEN "Unable to schedule all classes." ELSE "null"

\* lines 106, 39-43: assignCourses returns and scheduler returns its result
Return ==
    /\ pc = "alloc" /\ phase = "begin" /\ ci > Len(courses)
    /\ result' = [returned |-> TRUE, schedule |-> schedule,
                  periods |-> periods, unassigned |-> unassigned,
                  error |-> errorOf(unassigned)]
    /\ pc' = "returned"
    /\ UNCHANGED <<days, rooms, unavail, input, courses, period, schedule,
                   slotOrder, periods, unassigned, ci, phase, si, allotted,
                   attempts, shownError>>

\* lines 146-153: the handler shows the error of the result, if any
Display ==
    /\ pc = "returned"
    /\ shownError' = IF result.error # "null" THEN result.error ELSE shownError
    /\ pc' = "shown"
    /\ UNCHANGED <<days, rooms, unavail, input, courses, period, schedule,
                   slotOrder, periods, unassigned, ci, phase, si, allotted,
                   attempts, result>>

Next ==
    \/ Submit
    \/ BuildRow
    \/ CalculateConflicts
    \/ SortCourses
    \/ BeginCourse
    \/ TryPref
    \/ EndPrefs
    \/ EnterFallback
    \/ TryFallback
    \/ EndFallback
    \/ CheckCourse
    \/ Return
    \/ Display

Spec == Init /\ [][Next]_vars

\* ======================================================== properties
\* vocabulary of the properties, stated on the data rather than on the code
Returned == result.returned
Threw == \E n \in 1..Len(attempts) : attempts[n].outcome = "threw"
Completed == Returned /\ ~Threw

SharesTeacherOrSection(a, b) ==
    a.teacher = b.teacher \/ a.section \cap b.section # {}

ListedUnavailable(c, slot) ==
    /\ unavail.supplied
    /\ c.teacher \in DOMAIN unavail.map
    /\ \E n \in 1..Len(unavail.map[c.teacher]) : unavail.map[c.teacher][n] = slot

Occupies(sch, id, slot) ==
    slot \in DOMAIN sch /\ \E n \in 1..Len(sch[slot]) : sch[slot][n] = id

SlotsOf(sch, id) == { k \in DOMAIN sch : Occupies(sch, id, k) }

ConflictFree(sch) ==
    \A k \in DOMAIN sch : \A i, j \in 1..Len(sch[k]) :
        i # j => LET a == ById(sch[k][i])
                     b == ById(sch[k][j])
                 IN  /\ a.teacher # b.teacher
                     /\ a.section \cap b.section = {}
                     /\ a.id # b.id

\* C1: in every state of the allocation and in the returned schedule, two
\* entries at different positions of one slot have different teachers and
\* disjoint section sets (so a course is never twice in a slot).
C1_HardConflictInvariant ==
    /\ ConflictFree(schedule)
    /\ Returned => ConflictFree(result.schedule)

\* a run that returned a schedule in which a slot is shared, after a repeated
\* preference was refused because the course already sat in that slot
C1_Witness ==
    /\ Completed
    /\ \E k \in DOMAIN result.schedule : Len(result.schedule[k]) >= 2
    /\ \E n \in 1..Len(attempts) :
          /\ attempts[n].outcome = "rejected"
          /\ rooms = NoRooms
          /\ ~ListedUnavailable(ById(attempts[n].course), attempts[n].slot)
          /\ Occupies(result.schedule, attempts[n].course, attempts[n].slot)

WithinCapacity(sch) == \A k \in DOMAIN sch : Len(sch[k]) <= rooms

\* C2: with a room capacity R >= 1 every slot holds at most R courses, in
\* every state and in the returned schedule; without a capacity no attempt
\* is refused for the number of occupants (every refusal is then explained
\* by unavailability or by a conflicting occupant).
C2_RoomCapacity ==
    /\ rooms >= 1 => WithinCapacity(schedule)
    /\ (rooms >= 1 /\ Returned) => WithinCapacity(result.schedule)
    /\ rooms = NoRooms =>
          \A n \in 1..Len(attempts) :
              attempts[n].outcome = "rejected" =>
                  LET c == ById(attempts[n].course)
                      k == attempts[n].slot
                  IN  \/ ListedUnavailable(c, k)
                      \/ \E i \in 1..Len(schedule[k]) :
                            SharesTeacherOrSection(c, ById(schedule[k][i]))

\* a course was refused a slot only because the slot was full
C2_Witness ==
    /\ Completed /\ rooms = 1
    /\ \E n \in 1..Len(attempts) :
          LET c == ById(attempts[n].course)
              k == attempts[n].slot
          IN  /\ attempts[n].outcome = "rejected"
              /\ ~ListedUnavailable(c, k)
              /\ Len(result.schedule[k]) = rooms
              /\ \A i \in 1..Len(result.schedule[k]) :
                    ~SharesTeacherOrSection(c, ById(result.schedule[k][i]))

RespectsUnavailability(sch) ==
    \A k \in DOMAIN sch : \A i \in 1..Len(sch[k]) :
        ~ListedUnavailable(ById(sch[k][i]), k)

\* C3: a course is never placed in a slot listed as unavailable for its
\* teacher, neither from its preferred slots nor from the fallback scan.
C3_UnavailabilityRespected ==
    /\ RespectsUnavailability(schedule)
    /\ Returned => RespectsUnavailability(result.schedule)
    /\ \A n \in 1..Len(attempts) :
          attempts[n].outcome = "placed" =>
              ~ListedUnavailable(ById(attempts[n].course), attempts[n].slot)

\* unavailable slots were refused both as a preference and in the fallback
\* scan, and the courses concerned were placed elsewhere
C3_Witness ==
    /\ Completed
    /\ \E m, n \in 1..Len(attempts) :
          /\ attempts[m].phase = "prefs" /\ attempts[n].phase = "fallback"
          /\ attempts[m].outcome = "rejected" /\ attempts[n].outcome = "rejected"
          /\ ListedUnavailable(ById(attempts[m].course), attempts[m].slot)
          /\ ListedUnavailable(ById(attempts[n].course), attempts[n].slot)
          /\ result.schedule[attempts[m].slot] = <<>>
          /\ SlotsOf(result.schedule, attempts[m].course) # {}
          /\ SlotsOf(result.schedule, attempts[n].course) # {}

\* C4: after a run that completes normally every course occupies at most
\* `lectures` slots, it is in the unassigned list iff it occupies fewer, and
\* every placement made during the run is still in the returned schedule
\* (placements are never removed, also not those of unassigned courses).
C4_UnassignedExact ==
    /\ \A n \in 1..Len(attempts) :
          attempts[n].outcome = "placed" =>
              Occupies(schedule, attempts[n].course, attempts[n].slot)
    /\ Completed =>
          /\ \A i \in 1..Len(courses) :
                LET c == courses[i]
                    occ == Cardinality(SlotsOf(result.schedule, c.id))
                IN  /\ occ <= c.lectures
                    /\ (c.id \in Range(result.unassigned)) <=> (occ < c.lectures)
          /\ \A n \in 1..Len(attempts) :
                attempts[n].outcome = "placed" =>
                    Occupies(result.schedule, attempts[n].course,
                             attempts[n].slot)

\* an unassigned course that keeps a partial placement
C4_Witness ==
    /\ Completed
    /\ \E i \in 1..Len(courses) :
          LET occ == Cardinality(SlotsOf(result.schedule, courses[i].id))
          IN  /\ courses[i].id \in Range(result.unassigned)
              /\ 0 < occ /\ occ < courses[i].lectures

\* the largest period p such that some slot (d, p) is occupied, else 0
MaxPeriodUsed(sch) ==
    LET used == { p \in 1..(SlotBudget + 1) :
                    \E d \in 1..MaxWeekDays :
                        mkSlot(d, p) \in DOMAIN sch /\ sch[mkSlot(d, p)] # <<>> }
    IN  IF used = {} THEN 0 ELSE CHOOSE p \in used : \A q \in used : q <= p

\* C5: the returned periods value is the largest period index of an occupied
\* slot of the returned schedule, and 0 when no slot is occupied.
C5_PeriodsIsMaxUsed ==
    /\ pc = "alloc" => periods = MaxPeriodUsed(schedule)
    /\ Returned => result.periods = MaxPeriodUsed(result.schedule)

\* a returned schedule whose last period is 1 although day 2 is in use
C5_Witness ==
    /\ Completed
    /\ result.periods = 1
    /\ Occupies(result.schedule, 2, k21)

\* C6: when an exception is raised the run returns an empty schedule,
\* periods 0, an empty unassigned list and a non-null error, exposing none of
\* the placements made; a run without exception has a non-null error
\* exactly when its unassigned list is non-empty.
C6_FailuresContained ==
    /\ Threw => /\ Returned
                /\ result.schedule = <<>>
                /\ result.periods = 0
                /\ result.unassigned = <<>>
                /\ result.error # "null"
    /\ Completed => (result.error # "null" <=> result.unassigned # <<>>)

\* a preferred slot outside the grid raised after an earlier placement
C6_Witness ==
    /\ Threw /\ Returned
    /\ \E k \in DOMAIN schedule : schedule[k] # <<>>
    /\ attempts[Len(attempts)].slot \notin DOMAIN schedule

\* C7: a run submitted with days < 1 builds no grid, makes no allocation and
\* ends with the configuration error shown; nothing more can happen.
C7_DaysBelowOneRejected ==
    (pc # "form" /\ days < 1) =>
        /\ pc = "rejected"
        /\ shownError = "Invalid value for days or rooms"
        /\ schedule = <<>> /\ slotOrder = <<>>
        /\ attempts = <<>>
        /\ ~Returned
        /\ ~ENABLED Next

C7_Witness == pc = "rejected" /\ days = 0 /\ shownError # "none"

\* C8 as stated: conflict holds iff the teachers are equal or the section
\* sets intersect, is symmetric, and is irreflexive.
C8_AsStated ==
    \A a, b \in Range(courses) :
        /\ conflict(a, b) <=> SharesTeacherOrSection(a, b)
        /\ conflict(a, b) <=> conflict(b, a)
        /\ ~conflict(a, a)

\* C8 (amended): conflict holds iff the teachers are equal or the section
\* sets intersect, and it is symmetric and reflexive: conflict(c, c) is
\* true for every course.
C8_SymmetricReflexive ==
    \A a, b \in Range(courses) :
        /\ conflict(a, b) <=> SharesTeacherOrSection(a, b)
        /\ conflict(a, b) <=> conflict(b, a)
        /\ conflict(a, a)

\* a run with a pair in conflict by section only and a pair not in conflict
C8_Witness ==
    /\ pc = "alloc"
    /\ \E a, b, c \in Range(courses) :
          /\ a.teacher # b.teacher /\ conflict(a, b) /\ a.section # b.section
          /\ ~conflict(a, c)

\* ---------------------------------------------------------------- C9
Sorted == pc \in {"alloc", "returned", "shown"}

Weight == IF unavail.supplied THEN 2 ELSE 1

\* the conflict score as the claim words it, on the run's input
ConflictScore(c) ==
    Weight * Cardinality({ o \in Range(input) :
                             o.id # c.id /\ SharesTeacherOrSection(c, o) })
    + (IF unavail.supplied /\ c.teacher \in DOMAIN unavail.map
       THEN Len(unavail.map[c.teacher]) ELSE 0)

\* priority ascending, then conflict score descending, then id ascending
Before(a, b) ==
    \/ a.priority < b.priority
    \/ a.priority = b.priority /\ ConflictScore(a) > ConflictScore(b)
    \/ a.priority = b.priority /\ ConflictScore(a) = ConflictScore(b)
       /\ a.id < b.id

Pos(id) == CHOOSE i \in 1..Len(courses) : courses[i].id = id

\* C9: the allocation order is the input reordered by priority ascending,
\* conflict score descending, id ascending (a strict total order, so the
\* order is the same for every arrangement of the input list); the stored
\* score is the weighted number of conflicting other courses plus the
\* teacher's unavailability entries; assign() calls are never interleaved
\* between courses: they follow that order.
C9_AllocationOrder ==
    Sorted =>
        /\ Len(courses) = Len(input)
        /\ \A i \in 1..Len(input) : \E j \in 1..Len(courses) :
              courses[j] = [input[i] EXCEPT !.conflicts = ConflictScore(input[i])]
        /\ \A i, j \in 1..Len(courses) : i < j => Before(courses[i], courses[j])
        /\ \A m, n \in 1..Len(attempts) :
              m < n => Pos(attempts[m].course) <= Pos(attempts[n].course)

\* a finished run of four courses in which the priority, the score and the
\* id each decided the place of a pair against the input order
C9_Witness ==
    /\ Completed /\ Len(courses) = 4
    /\ \E i, j \in 1..4 : /\ i < j
                          /\ courses[i].priority < courses[j].priority
                          /\ courses[i].id > courses[j].id
    /\ \E i, j \in 1..4 : /\ i < j
                          /\ courses[i].priority = courses[j].priority
                          /\ courses[i].conflicts > courses[j].conflicts
                          /\ courses[i].id > courses[j].id
    /\ \E i, j \in 1..4 : /\ i < j
                          /\ courses[i].priority = courses[j].priority
                          /\ courses[i].conflicts = courses[j].conflicts
                          /\ \E a, b \in 1..4 : /\ a < b
                                                /\ input[a].id = courses[j].id
                                                /\ input[b].id = courses[i].id
    /\ \E m, n \in 1..Len(attempts) : attempts[m].course # attempts[n].course

\* --------------------------------------------------------------- C10
\* the grid slots, period ascending as the outer key, day ascending inside
Canonical ==
    [n \in 1..((SlotBudget \div days) * days) |->
        mkSlot(((n - 1) % days) + 1, ((n - 1) \div days) + 1)]

NotPreferred(c) == { k \in Range(Canonical) : \A i \in 1..Len(c.prefs) : c.prefs[i] # k }

CanonicalPos(k) == CHOOSE n \in 1..Len(Canonical) : Canonical[n] = k

\* the indices of the assign() calls of course id in phase ph
Calls(id, ph) ==
    { n \in 1..Len(attempts) : attempts[n].course = id /\ attempts[n].phase = ph }

Rank(S, n) == Cardinality({ m \in S : m <= n })

PlacedBefore(id, n) ==
    Cardinality({ m \in 1..(n - 1) :
                    attempts[m].course = id /\ attempts[m].outcome = "placed" })

\* slot k cannot take course c in the current state
Infeasible(c, k) ==
    \/ rooms >= 1 /\ Len(schedule[k]) = rooms
    \/ ListedUnavailable(c, k)
    \/ \E i \in 1..Len(schedule[k]) : SharesTeacherOrSection(c, ById(schedule[k][i]))

TurnOrder(c) ==
    LET P == Calls(c.id, "prefs")
        F == Calls(c.id, "fallback")
    IN  \* preferences first, in their given order
        /\ \A m \in P, n \in F : m < n
        /\ \A n \in P : /\ Rank(P, n) <= Len(c.prefs)
                        /\ attempts[n].slot = c.prefs[Rank(P, n)]
        \* then the other grid slots in canonical order, each once
        /\ \A n \in F : /\ attempts[n].slot \in NotPreferred(c)
                        /\ Rank(F, n) =
                             Cardinality({ k \in NotPreferred(c) :
                                 CanonicalPos(k) <= CanonicalPos(attempts[n].slot) })
        \* the fallback starts only after all preferences, when sessions lack
        /\ F # {} => Cardinality(P) = Len(c.prefs)
        \* no call once the required sessions are placed
        /\ \A n \in P \cup F : PlacedBefore(c.id, n) < c.lectures
        \* a taken slot stays occupied
        /\ \A n \in P \cup F :
              attempts[n].outcome = "placed" =>
                  Occupies(schedule, c.id, attempts[n].slot)
        \* a finished turn that lacks sessions tried every slot
        /\ (Pos(c.id) < ci /\ PlacedBefore(c.id, Len(attempts) + 1) < c.lectures) =>
              /\ Cardinality(P) = Len(c.prefs)
              /\ Cardinality(F) = Cardinality(NotPreferred(c))

\* a non-preferred slot is occupied only after every preference and every
\* earlier non-preferred slot was taken by the course or refused
FallbackJustified(c) ==
    \A n \in Calls(c.id, "fallback") :
        attempts[n].outcome = "placed" =>
            /\ \A i \in 1..Len(c.prefs) :
                  \E m \in 1..(n - 1) :
                      /\ attempts[m].course = c.id
                      /\ attempts[m].slot = c.prefs[i]
                      /\ attempts[m].outcome \in {"placed", "rejected"}
            /\ \A k \in NotPreferred(c) :
                  CanonicalPos(k) < CanonicalPos(attempts[n].slot) =>
                      \E m \in 1..(n - 1) :
                          /\ attempts[m].course = c.id
                          /\ attempts[m].slot = k
                          /\ attempts[m].outcome \in {"placed", "rejected"}

OccupiesOnlyCalled(c) ==
    \A k \in DOMAIN schedule :
        Occupies(schedule, c.id, k) =>
            \E n \in 1..Len(attempts) :
                /\ attempts[n].course = c.id /\ attempts[n].slot = k
                /\ attempts[n].outcome = "placed"

\* the latest call: refused only if the slot was infeasible when tried (a
\* refusal leaves the schedule as it was), taken only into a grid slot
LastCallSound ==
    attempts # <<>> =>
        LET a == attempts[Len(attempts)]
        IN  /\ a.outcome = "rejected" => Infeasible(ById(a.course), a.slot)
            /\ a.outcome = "placed" => a.slot \in Range(Canonical)

\* the calls are a history: the order of the turns is read off the complete
\* history, at the return of scheduler()
C10_Turns ==
    /\ Sorted => LastCallSound
    /\ pc = "returned" =>
          \A i \in 1..Len(courses) :
              /\ TurnOrder(courses[i])
              /\ FallbackJustified(courses[i])
              /\ OccupiesOnlyCalled(courses[i])

FirstPeriods(k) == { mkSlot(1, p) : p \in 1..k }

LoneCourse ==
    /\ Completed /\ days = 1 /\ Len(courses) = 1
    /\ courses[1].prefs = <<>>

\* C10 as stated: the order of a course's turn, and a single course without
\* preferences requiring k sessions with days = 1 gets periods 1..k.
C10_AsStated ==
    /\ C10_Turns
    /\ LoneCourse =>
          SlotsOf(result.schedule, courses[1].id) = FirstPeriods(courses[1].lectures)

\* C10 (amended): the order of a course's turn as stated; a single course
\* without preferences requiring k sessions with days = 1 gets periods 1..k
\* provided the grid has at least k periods and none of the slots 1.1 .. 1.k
\* is listed as unavailable for its teacher.
C10_TurnOrder ==
    /\ C10_Turns
    /\ ( /\ LoneCourse
         /\ courses[1].lectures <= SlotBudget \div days
         /\ \A k \in FirstPeriods(courses[1].lectures) :
               ~ListedUnavailable(courses[1], k) ) =>
          SlotsOf(result.schedule, courses[1].id) = FirstPeriods(courses[1].lectures)

\* a course whose preference was refused, whose first fallback slot was
\* refused too, and which then took a later slot, in a two-day grid
C10_Witness ==
    /\ Completed /\ days = 2
    /\ \E m, n, o \in 1..Len(attempts) :
          /\ m < n /\ n < o
          /\ attempts[m].course = attempts[n].course
          /\ attempts[n].course = attempts[o].course
          /\ attempts[m].phase = "prefs" /\ attempts[m].outcome = "rejected"
          /\ attempts[n].phase = "fallback" /\ attempts[n].outcome = "rejected"
          /\ attempts[o].phase = "fallback" /\ attempts[o].outcome = "placed"
          /\ slotPeriod(attempts[o].slot) = 2

====
